---- MODULE Spec2Model ----
(***************************************************************************)
(* Write-ahead log of raiden (raiden/storage/wal.py).                      *)
(*                                                                         *)
(* The module models the WriteAheadLog coordinator (commit scope,          *)
(* snapshot, get_current_state), the dispatcher handed out by a commit     *)
(* scope, and the recovery functions (restore_or_init_snapshot,            *)
(* replay_unapplied_state_changes, restore_state).  The collaborators that *)
(* wal.py imports (StateManager, the SQLite storage, the ULID factories,   *)
(* the serializer) are modelled from their contract.                       *)
(*                                                                         *)
(* A State is the sequence of the payloads folded into it, so that two     *)
(* states are equal exactly when they were produced by the same fold.      *)
(***************************************************************************)
EXTENDS Integers, Sequences, FiniteSets, TLC

\* ------------------------------------------------------------------ bounds
\* Highest ULID a factory hands out in the model.
MaxUlid == 2
\* Number of commit scopes opened in one behaviour.
MaxScopes == 2
\* Number of snapshots written by snapshot() in one behaviour.
MaxSnapshots == 1

\* Greenlets calling into the coordinator.
Tasks == {1, 2}
\* Payloads of the state changes a caller dispatches. BadChange is the one
\* the caller's transition function raises on.
GoodChanges == {1, 2}
BadChange == 0
StateChanges == GoodChanges \cup {BadChange}
\* The states a node may be primed with.
InitialStates == {<<7>>, <<8>>}
\* The state the node's StateManager is constructed with.
InitialState == <<7>>
\* statechange_qty values a caller passes to snapshot().
QtyHints == {5}

\* ---------------------------------------------------------------- sentinels
LOW_STATECHANGE_ULID == 0
HIGH_STATECHANGE_ULID == MaxUlid + 2

\* Python's None for an Optional[StateChangeID].
NoneId == -1
\* An unset attribute / Optional value is the empty sequence, a set one is a
\* one-element sequence.
Unset == <<>>

\* -------------------------------------------------------------- serializer
\* storage.serializer.serialize / deserialize: the payload is wrapped into a
\* record and unwrapped again.
Serialize(obj) == [json |-> obj]
Deserialize(data) == data.json

\* ------------------------------------------------------- transition engine
\* The caller's transition function: (State, StateChange) -> (State, [Event]).
\* Change c yields c - 1 events.
TransitionFails(state, state_change) == state_change = BadChange

TransitionFunction(state, state_change) ==
    [new_state |-> Append(state, state_change),
     events    |-> [i \in 1..(state_change - 1) |-> 10 * state_change + i]]

\* StateManager.dispatch: deep-copies the current state, runs the transition
\* function on the copy and replaces current_state by the result.
StateManagerDispatch(current_state, state_change) ==
    TransitionFunction(current_state, state_change)

\* StateManager.copy: a manager owning a deep copy of the current state.
StateManagerCopy(current_state) == current_state

\* StateManager(transition, state, state_changes): a manager whose state is
\* `state` with `state_changes` dispatched in order.
RECURSIVE StateManagerReplay(_, _)
StateManagerReplay(state, state_changes) ==
    IF state_changes = <<>> THEN state
    ELSE StateManagerReplay(StateManagerDispatch(state, Head(state_changes)).new_state,
                            Tail(state_changes))

\* ------------------------------------------------------------ ULID factory
\* ULIDMonotonicFactory.new: strictly greater than the previous one.
UlidNew(previous) == previous + 1

VARIABLES
    pc,                     \* position of each task
    lock,                   \* counter of WriteAheadLog._lock (a Semaphore)
    state_manager,          \* WriteAheadLog._state_manager.current_state
    saved_state,            \* WriteAheadLog.saved_state (Unset until assigned)
    copied_state_manager,   \* per scope: current_state of the copied manager
    last_state_change_id,   \* per scope: dispatcher.last_state_change_id
    snap_qty,               \* per task: argument of the pending snapshot()
    db_state_changes,       \* committed rows of table state_changes
    db_events,              \* committed rows of table state_events
    db_snapshots,           \* rows of table state_snapshot
    tx_state_changes,       \* state change rows of the open transaction
    tx_events,              \* event rows of the open transaction
    ulid_sc,                \* last ULID issued by the StateChangeID factory
    ulid_ev,                \* last ULID issued by the EventID factory
    guard_seq,              \* number of commit scopes that acquired the guard
    ret,                    \* outcome of the call that has just returned, if any
    hist                    \* history of the running scope of each task

vars == <<pc, lock, state_manager, saved_state, copied_state_manager,
          last_state_change_id, snap_qty, db_state_changes, db_events,
          db_snapshots, tx_state_changes, tx_events, ulid_sc, ulid_ev,
          guard_seq, ret, hist>>

\* ------------------------------------------------------------------ storage
\* get_snapshot_before_state_change returning the oldest such snapshot.
GetSnapshotBeforeStateChange_Oldest(snapshots, state_change_identifier) ==
    LET idx == {i \in 1..Len(snapshots) :
                  snapshots[i].state_change_identifier <= state_change_identifier}
    IN IF idx = {} THEN Unset
       ELSE <<snapshots[CHOOSE i \in idx : \A j \in idx : i <= j]>>

\* storage.get_snapshot_before_state_change: the latest snapshot row whose
\* state change id is <= the given id, or Unset.
GetSnapshotBeforeStateChange(snapshots, state_change_identifier) ==
    LET idx == {i \in 1..Len(snapshots) :
                  snapshots[i].state_change_identifier <= state_change_identifier}
    IN IF idx = {} THEN Unset
       ELSE <<snapshots[CHOOSE i \in idx : \A j \in idx : j <= i]>>

\* ORDER BY identifier ASC.
RECURSIVE SortByIdentifier(_)
SortByIdentifier(rows) ==
    IF rows = <<>> THEN <<>>
    ELSE LET m == CHOOSE i \in 1..Len(rows) :
                    \A j \in 1..Len(rows) :
                       \/ rows[i].identifier < rows[j].identifier
                       \/ rows[i].identifier = rows[j].identifier /\ i <= j
         IN <<rows[m]>> \o
            SortByIdentifier([k \in 1..(Len(rows) - 1) |->
                                IF k < m THEN rows[k] ELSE rows[k + 1]])

\* get_statechanges_by_range with the lower end of the range included.
GetStatechangesByRange_Inclusive(rows, first, last) ==
    LET InRange(r) == r.identifier >= first /\ r.identifier <= last
        sel == SortByIdentifier(SelectSeq(rows, InRange))
    IN [i \in 1..Len(sel) |-> Deserialize(sel[i].data)]

\* storage.get_statechanges_by_range(Range(first, last)): the deserialized
\* state changes with first < id <= last, in ascending id order.
GetStatechangesByRange(rows, first, last) ==
    LET InRange(r) == r.identifier > first /\ r.identifier <= last
        sel == SortByIdentifier(SelectSeq(rows, InRange))
    IN [i \in 1..Len(sel) |-> Deserialize(sel[i].data)]

\* storage.write_first_state_snapshot / storage.write_state_snapshot.
WriteStateSnapshot(snapshots, state, state_change_id, statechange_qty) ==
    Append(snapshots, [data |-> state,
                       state_change_identifier |-> state_change_id,
                       state_change_qty |-> statechange_qty])

\* database.transaction(): COMMIT makes the rows written since BEGIN durable.
TxCommit(committed, pending) == committed \o pending

\* --------------------------------------------------------------- dispatcher
\* write_state_change_and_events with a StateChangeID factory that starts
\* over at every call.
WriteStateChangeAndEvents_FactoryRestarts(owner, state_change, events, events_written) ==
    LET state_change_id == UlidNew(LOW_STATECHANGE_ULID)
    IN [state_change_id |-> state_change_id,
        state_changes |-> Append(tx_state_changes,
                                 [identifier |-> state_change_id,
                                  data |-> Serialize(state_change),
                                  scope |-> owner]),
        events |-> tx_events \o
                   [i \in 1..events_written |->
                      [identifier |-> ulid_ev + i,
                       source_statechange_id |-> state_change_id,
                       data |-> Serialize(events[i])]],
        ulid_sc |-> ulid_sc + 1,
        ulid_ev |-> ulid_ev + events_written]

\* _AtomicStateChangeDispatcher.write_state_change_and_events, lines 197-218:
\* one state change row with a fresh StateChangeID, then one row per event
\* tagged with that id. events_written < Len(events) is write_events raising.
\* `owner` is the number of the writing scope in guard order.
WriteStateChangeAndEvents(owner, state_change, events, events_written) ==
    LET state_change_id == UlidNew(ulid_sc)
    IN [state_change_id |-> state_change_id,
        state_changes |-> Append(tx_state_changes,
                                 [identifier |-> state_change_id,
                                  data |-> Serialize(state_change),
                                  scope |-> owner]),
        events |-> tx_events \o
                   [i \in 1..events_written |->
                      [identifier |-> ulid_ev + i,
                       source_statechange_id |-> state_change_id,
                       data |-> Serialize(events[i])]],
        ulid_sc |-> state_change_id,
        ulid_ev |-> ulid_ev + events_written]

\* ------------------------------------------------------------------ history
\* What a running scope remembers: its number in guard order, the values
\* before it was opened, the dispatch calls that returned, whether the body
\* handled an exception raised by a write of a dispatch, the exception in
\* flight.
NoHist == [no |-> 0, pre_state |-> <<>>, pre_saved |-> Unset,
           pre_state_changes |-> <<>>, pre_events |-> <<>>,
           calls |-> <<>>, swallowed |-> FALSE, exc |-> "none"]

\* No call has just returned.
NoRet == <<>>
\* A commit scope of task t has just ended with `result`; `copy` is the
\* state of the manager its dispatcher holds.
ScopeRet(t, result) == <<[op |-> "scope", task |-> t, result |-> result,
                          scope |-> hist[t],
                          copy |-> copied_state_manager[t]]>>
\* snapshot(statechange_qty) of task t has just ended.
SnapshotRet(t, result) == <<[op |-> "snapshot", task |-> t, result |-> result,
                             qty |-> snap_qty[t]]>>

InScope(t) == pc[t] \in {"body", "raised", "committed"}
InSnapshot(t) == pc[t] = "snap"

TypeOK ==
    /\ pc \in [Tasks -> {"idle", "wait_scope", "body", "raised", "committed",
                         "wait_snap", "snap"}]
    /\ lock \in Int
    /\ ulid_sc \in 0..MaxUlid
    /\ ulid_ev \in Nat

\* --------------------------------------------------------------------- Init
\* WriteAheadLog(state_manager, storage) on an empty database: saved_state
\* is only annotated, the semaphore starts at 1.
Init ==
    /\ pc = [t \in Tasks |-> "idle"]
    /\ lock = 1
    /\ state_manager = InitialState
    /\ saved_state = Unset
    /\ copied_state_manager = [t \in Tasks |-> <<>>]
    /\ last_state_change_id = [t \in Tasks |-> NoneId]
    /\ snap_qty = [t \in Tasks |-> 0]
    /\ db_state_changes = <<>>
    /\ db_events = <<>>
    /\ db_snapshots = <<>>
    /\ tx_state_changes = <<>>
    /\ tx_events = <<>>
    /\ ulid_sc = LOW_STATECHANGE_ULID
    /\ ulid_ev = 0
    /\ guard_seq = 0
    /\ ret = NoRet
    /\ hist = [t \in Tasks |-> NoHist]


\* ------------------------------------------------------------------ helpers
Waiting(t) == pc[t] \in {"wait_scope", "wait_snap"}

\* ----------------------------------------------------- commit scope: enter
\* A task calls process_state_change_atomically() and reaches `with self._lock`.
\* The node's tasks use the coordinator once the node has initialised the
\* database with restore_or_init_snapshot.
CallScope(t) ==
    /\ pc[t] = "idle"
    /\ db_snapshots # <<>>
    /\ guard_seq + Cardinality({u \in Tasks : pc[u] = "wait_scope"}) < MaxScopes
    /\ pc' = [pc EXCEPT ![t] = "wait_scope"]
    /\ ret' = NoRet
    /\ UNCHANGED <<lock, state_manager, saved_state, copied_state_manager,
                   last_state_change_id, snap_qty, db_state_changes, db_events,
                   db_snapshots, tx_state_changes, tx_events, ulid_sc, ulid_ev,
                   guard_seq, hist>>

\* The scope's entry with the guard left out.
EnterScope_NoLock(t) ==
    /\ pc[t] = "wait_scope"
    /\ lock' = lock - 1
    /\ copied_state_manager' =
         [copied_state_manager EXCEPT ![t] = StateManagerCopy(state_manager)]
    /\ last_state_change_id' = [last_state_change_id EXCEPT ![t] = NoneId]
    /\ guard_seq' = guard_seq + 1
    /\ hist' = [hist EXCEPT ![t] =
                  [NoHist EXCEPT !.no = guard_seq + 1,
                                 !.pre_state = state_manager,
                                 !.pre_saved = saved_state,
                                 !.pre_state_changes = db_state_changes,
                                 !.pre_events = db_events]]
    /\ pc' = [pc EXCEPT ![t] = "body"]
    /\ ret' = NoRet
    /\ UNCHANGED <<state_manager, saved_state, snap_qty, db_state_changes,
                   db_events, db_snapshots, tx_state_changes, tx_events,
                   ulid_sc, ulid_ev>>

\* The scope's entry with a re-entrant lock: a task whose own scope holds
\* the guard acquires it again.
EnterScope_Reentrant(t) ==
    /\ pc[t] = "wait_scope"
    /\ lock > 0 \/ hist[t].no # 0
    /\ lock' = lock - 1
    /\ copied_state_manager' =
         [copied_state_manager EXCEPT ![t] = StateManagerCopy(state_manager)]
    /\ last_state_change_id' = [last_state_change_id EXCEPT ![t] = NoneId]
    /\ guard_seq' = guard_seq + 1
    /\ hist' = [hist EXCEPT ![t] =
                  [NoHist EXCEPT !.no = guard_seq + 1,
                                 !.pre_state = state_manager,
                                 !.pre_saved = saved_state,
                                 !.pre_state_changes = db_state_changes,
                                 !.pre_events = db_events]]
    /\ pc' = [pc EXCEPT ![t] = "body"]
    /\ ret' = NoRet
    /\ UNCHANGED <<state_manager, saved_state, snap_qty, db_state_changes,
                   db_events, db_snapshots, tx_state_changes, tx_events,
                   ulid_sc, ulid_ev>>

\* Lines 220-227: acquire the semaphore, copy the state manager, BEGIN the
\* transaction, build the dispatcher and yield it to the body.
EnterScope(t) ==
    /\ pc[t] = "wait_scope"
    /\ lock > 0
    /\ lock' = lock - 1
    /\ copied_state_manager' =
         [copied_state_manager EXCEPT ![t] = StateManagerCopy(state_manager)]
    /\ last_state_change_id' = [last_state_change_id EXCEPT ![t] = NoneId]
    /\ guard_seq' = guard_seq + 1
    /\ hist' = [hist EXCEPT ![t] =
                  [NoHist EXCEPT !.no = guard_seq + 1,
                                 !.pre_state = state_manager,
                                 !.pre_saved = saved_state,
                                 !.pre_state_changes = db_state_changes,
                                 !.pre_events = db_events]]
    /\ pc' = [pc EXCEPT ![t] = "body"]
    /\ ret' = NoRet
    /\ UNCHANGED <<state_manager, saved_state, snap_qty, db_state_changes,
                   db_events, db_snapshots, tx_state_changes, tx_events,
                   ulid_sc, ulid_ev>>

\* -------------------------------------------------- commit scope: dispatch
\* dispatcher.dispatch applied to the authoritative manager instead of the
\* scope's copy.
Dispatch_OnAuthoritative(t, state_change) ==
    /\ pc[t] = "body"
    /\ ~TransitionFails(copied_state_manager[t], state_change)
    /\ ulid_sc < MaxUlid
    /\ LET it == StateManagerDispatch(copied_state_manager[t], state_change)
           w  == WriteStateChangeAndEvents(hist[t].no, state_change, it.events,
                                           Len(it.events))
       IN /\ copied_state_manager' =
               [copied_state_manager EXCEPT ![t] = it.new_state]
          /\ state_manager' = it.new_state
          /\ tx_state_changes' = w.state_changes
          /\ tx_events' = w.events
          /\ ulid_sc' = w.ulid_sc
          /\ ulid_ev' = w.ulid_ev
          /\ last_state_change_id' =
               [last_state_change_id EXCEPT ![t] = w.state_change_id]
          /\ hist' = [hist EXCEPT ![t].calls =
                        Append(@, [state_change |-> state_change,
                                   state_change_id |-> w.state_change_id,
                                   events |-> it.events])]
    /\ ret' = NoRet
    /\ UNCHANGED <<pc, lock, saved_state, snap_qty, db_state_changes,
                   db_events, db_snapshots, guard_seq>>

\* Lines 186-192, returning normally: the copied manager applies the state
\* change, the state change and its events are written to the open
\* transaction, the id is remembered.
Dispatch(t, state_change) ==
    /\ pc[t] = "body"
    /\ ~TransitionFails(copied_state_manager[t], state_change)
    /\ ulid_sc < MaxUlid
    /\ LET it == StateManagerDispatch(copied_state_manager[t], state_change)
           w  == WriteStateChangeAndEvents(hist[t].no, state_change, it.events,
                                           Len(it.events))
       IN /\ copied_state_manager' =
               [copied_state_manager EXCEPT ![t] = it.new_state]
          /\ tx_state_changes' = w.state_changes
          /\ tx_events' = w.events
          /\ ulid_sc' = w.ulid_sc
          /\ ulid_ev' = w.ulid_ev
          /\ last_state_change_id' =
               [last_state_change_id EXCEPT ![t] = w.state_change_id]
          /\ hist' = [hist EXCEPT ![t].calls =
                        Append(@, [state_change |-> state_change,
                                   state_change_id |-> w.state_change_id,
                                   events |-> it.events])]
    /\ ret' = NoRet
    /\ UNCHANGED <<pc, lock, state_manager, saved_state, snap_qty,
                   db_state_changes, db_events, db_snapshots, guard_seq>>

\* Line 187 raising: the transition function fails, StateManager.dispatch
\* leaves current_state as it was, nothing is written; the exception reaches
\* the scope body.
DispatchTransitionFails(t, state_change) ==
    /\ pc[t] = "body"
    /\ TransitionFails(copied_state_manager[t], state_change)
    /\ pc' = [pc EXCEPT ![t] = "raised"]
    /\ hist' = [hist EXCEPT ![t].exc = "transition"]
    /\ ret' = NoRet
    /\ UNCHANGED <<lock, state_manager, saved_state, copied_state_manager,
                   last_state_change_id, snap_qty, db_state_changes, db_events,
                   db_snapshots, tx_state_changes, tx_events, ulid_sc, ulid_ev,
                   guard_seq>>

\* Line 188 raising: line 187 has already replaced the copied manager's
\* state. Either write_state_change raises (the id is drawn, no row is
\* written) or write_events raises on an event (the state change row is in
\* the transaction, its events are not). Line 190 is not reached.
DispatchWriteFails(t, state_change, at) ==
    /\ pc[t] = "body"
    /\ ~TransitionFails(copied_state_manager[t], state_change)
    /\ ulid_sc < MaxUlid
    /\ LET it == StateManagerDispatch(copied_state_manager[t], state_change)
           w  == WriteStateChangeAndEvents(hist[t].no, state_change, it.events, 0)
       IN /\ at = "events" => it.events # <<>>
          /\ copied_state_manager' =
               [copied_state_manager EXCEPT ![t] = it.new_state]
          /\ ulid_sc' = w.ulid_sc
          /\ tx_state_changes' =
               IF at = "events" THEN w.state_changes ELSE tx_state_changes
    /\ pc' = [pc EXCEPT ![t] = "raised"]
    /\ hist' = [hist EXCEPT ![t].exc = "write"]
    /\ ret' = NoRet
    /\ UNCHANGED <<lock, state_manager, saved_state, last_state_change_id,
                   snap_qty, db_state_changes, db_events, db_snapshots,
                   tx_events, ulid_ev, guard_seq>>

\* The scope body handles the exception a dispatch raised and goes on.
BodyCatches(t) ==
    /\ pc[t] = "raised"
    /\ pc' = [pc EXCEPT ![t] = "body"]
    /\ hist' = [hist EXCEPT ![t].exc = "none",
                            ![t].swallowed = @ \/ hist[t].exc = "write"]
    /\ ret' = NoRet
    /\ UNCHANGED <<lock, state_manager, saved_state, copied_state_manager,
                   last_state_change_id, snap_qty, db_state_changes, db_events,
                   db_snapshots, tx_state_changes, tx_events, ulid_sc, ulid_ev,
                   guard_seq>>

\* ---------------------------------------------------- commit scope: leave
\* The scope ends with an exception and the guard is kept.
ScopeAbort_KeepsLock(t) ==
    /\ pc[t] \in {"body", "raised"}
    /\ tx_state_changes' = <<>>
    /\ tx_events' = <<>>
    /\ pc' = [pc EXCEPT ![t] = "idle"]
    /\ ret' = ScopeRet(t, IF pc[t] = "raised" THEN hist[t].exc ELSE "body")
    /\ hist' = [hist EXCEPT ![t] = NoHist]
    /\ copied_state_manager' = [copied_state_manager EXCEPT ![t] = <<>>]
    /\ last_state_change_id' = [last_state_change_id EXCEPT ![t] = NoneId]
    /\ UNCHANGED <<lock, state_manager, saved_state, snap_qty,
                   db_state_changes, db_events, db_snapshots, ulid_sc, ulid_ev,
                   guard_seq>>

\* The scope ends with an exception and the copy is promoted all the same.
ScopeAbort_Promotes(t) ==
    /\ pc[t] \in {"body", "raised"}
    /\ tx_state_changes' = <<>>
    /\ tx_events' = <<>>
    /\ state_manager' = copied_state_manager[t]
    /\ lock' = lock + 1
    /\ pc' = [pc EXCEPT ![t] = "idle"]
    /\ ret' = ScopeRet(t, IF pc[t] = "raised" THEN hist[t].exc ELSE "body")
    /\ hist' = [hist EXCEPT ![t] = NoHist]
    /\ copied_state_manager' = [copied_state_manager EXCEPT ![t] = <<>>]
    /\ last_state_change_id' = [last_state_change_id EXCEPT ![t] = NoneId]
    /\ UNCHANGED <<saved_state, snap_qty, db_state_changes, db_events,
                   db_snapshots, ulid_sc, ulid_ev, guard_seq>>

\* An exception leaves the scope body at line 227: one the body raised
\* itself (or the task being killed there), or one a dispatch raised and the
\* body did not handle. The transaction context rolls back, `with self._lock`
\* releases the semaphore, lines 229-239 are skipped.
ScopeAbort(t) ==
    /\ pc[t] \in {"body", "raised"}
    /\ tx_state_changes' = <<>>
    /\ tx_events' = <<>>
    /\ lock' = lock + 1
    /\ pc' = [pc EXCEPT ![t] = "idle"]
    /\ ret' = ScopeRet(t, IF pc[t] = "raised" THEN hist[t].exc ELSE "body")
    /\ hist' = [hist EXCEPT ![t] = NoHist]
    /\ copied_state_manager' = [copied_state_manager EXCEPT ![t] = <<>>]
    /\ last_state_change_id' = [last_state_change_id EXCEPT ![t] = NoneId]
    /\ UNCHANGED <<state_manager, saved_state, snap_qty, db_state_changes,
                   db_events, db_snapshots, ulid_sc, ulid_ev, guard_seq>>

\* The body returns and COMMIT raises: the transaction context rolls back and
\* re-raises, the semaphore is released, lines 229-239 are skipped.
CommitFails(t) ==
    /\ pc[t] = "body"
    /\ tx_state_changes' = <<>>
    /\ tx_events' = <<>>
    /\ lock' = lock + 1
    /\ pc' = [pc EXCEPT ![t] = "idle"]
    /\ ret' = ScopeRet(t, "commit")
    /\ hist' = [hist EXCEPT ![t] = NoHist]
    /\ copied_state_manager' = [copied_state_manager EXCEPT ![t] = <<>>]
    /\ last_state_change_id' = [last_state_change_id EXCEPT ![t] = NoneId]
    /\ UNCHANGED <<state_manager, saved_state, snap_qty, db_state_changes,
                   db_events, db_snapshots, ulid_sc, ulid_ev, guard_seq>>

\* The body returns and the transaction context commits (line 223 exits).
ScopeCommit(t) ==
    /\ pc[t] = "body"
    /\ db_state_changes' = TxCommit(db_state_changes, tx_state_changes)
    /\ db_events' = TxCommit(db_events, tx_events)
    /\ tx_state_changes' = <<>>
    /\ tx_events' = <<>>
    /\ pc' = [pc EXCEPT ![t] = "committed"]
    /\ ret' = NoRet
    /\ UNCHANGED <<lock, state_manager, saved_state, copied_state_manager,
                   last_state_change_id, snap_qty, db_snapshots, ulid_sc,
                   ulid_ev, guard_seq, hist>>

\* The promotion pairing the new state with the id the scope started from.
ScopePromote_StaleId(t) ==
    /\ pc[t] = "committed"
    /\ state_manager' = copied_state_manager[t]
    /\ saved_state' =
         IF last_state_change_id[t] # NoneId
         THEN <<[state_change_id |-> hist[t].calls[1].state_change_id,
                 state |-> copied_state_manager[t]]>>
         ELSE saved_state
    /\ lock' = lock + 1
    /\ pc' = [pc EXCEPT ![t] = "idle"]
    /\ ret' = ScopeRet(t, "ok")
    /\ hist' = [hist EXCEPT ![t] = NoHist]
    /\ copied_state_manager' = [copied_state_manager EXCEPT ![t] = <<>>]
    /\ last_state_change_id' = [last_state_change_id EXCEPT ![t] = NoneId]
    /\ UNCHANGED <<snap_qty, db_state_changes, db_events, db_snapshots,
                   tx_state_changes, tx_events, ulid_sc, ulid_ev, guard_seq>>

\* The promotion replacing saved_state whether or not a dispatch recorded
\* an id.
ScopePromote_AlwaysSaves(t) ==
    /\ pc[t] = "committed"
    /\ state_manager' = copied_state_manager[t]
    /\ saved_state' = <<[state_change_id |-> last_state_change_id[t],
                         state |-> copied_state_manager[t]]>>
    /\ lock' = lock + 1
    /\ pc' = [pc EXCEPT ![t] = "idle"]
    /\ ret' = ScopeRet(t, "ok")
    /\ hist' = [hist EXCEPT ![t] = NoHist]
    /\ copied_state_manager' = [copied_state_manager EXCEPT ![t] = <<>>]
    /\ last_state_change_id' = [last_state_change_id EXCEPT ![t] = NoneId]
    /\ UNCHANGED <<snap_qty, db_state_changes, db_events, db_snapshots,
                   tx_state_changes, tx_events, ulid_sc, ulid_ev, guard_seq>>

\* Lines 229-239 and the release of the semaphore: the copy becomes the
\* authoritative manager; saved_state is replaced in one assignment when a
\* dispatch has recorded an id.
ScopePromote(t) ==
    /\ pc[t] = "committed"
    /\ state_manager' = copied_state_manager[t]
    /\ saved_state' =
         IF last_state_change_id[t] # NoneId
         THEN <<[state_change_id |-> last_state_change_id[t],
                 state |-> copied_state_manager[t]]>>
         ELSE saved_state
    /\ lock' = lock + 1
    /\ pc' = [pc EXCEPT ![t] = "idle"]
    /\ ret' = ScopeRet(t, "ok")
    /\ hist' = [hist EXCEPT ![t] = NoHist]
    /\ copied_state_manager' = [copied_state_manager EXCEPT ![t] = <<>>]
    /\ last_state_change_id' = [last_state_change_id EXCEPT ![t] = NoneId]
    /\ UNCHANGED <<snap_qty, db_state_changes, db_events, db_snapshots,
                   tx_state_changes, tx_events, ulid_sc, ulid_ev, guard_seq>>

\* ----------------------------------------------------------------- snapshot
\* A task calls snapshot(statechange_qty) and reaches `with self._lock`.
CallSnapshot(t, statechange_qty) ==
    /\ pc[t] = "idle"
    /\ db_snapshots # <<>>
    /\ Cardinality({i \in 1..Len(db_snapshots) :
                       db_snapshots[i].state_change_identifier # LOW_STATECHANGE_ULID})
         + Cardinality({u \in Tasks : pc[u] \in {"wait_snap", "snap"}})
       < MaxSnapshots
    /\ pc' = [pc EXCEPT ![t] = "wait_snap"]
    /\ snap_qty' = [snap_qty EXCEPT ![t] = statechange_qty]
    /\ ret' = NoRet
    /\ UNCHANGED <<lock, state_manager, saved_state, copied_state_manager,
                   last_state_change_id, db_state_changes, db_events,
                   db_snapshots, tx_state_changes, tx_events, ulid_sc, ulid_ev,
                   guard_seq, hist>>

\* snapshot() entered with the guard left out.
EnterSnapshot_NoLock(t) ==
    /\ pc[t] = "wait_snap"
    /\ lock' = lock - 1
    /\ pc' = [pc EXCEPT ![t] = "snap"]
    /\ ret' = NoRet
    /\ UNCHANGED <<state_manager, saved_state, copied_state_manager,
                   last_state_change_id, snap_qty, db_state_changes, db_events,
                   db_snapshots, tx_state_changes, tx_events, ulid_sc, ulid_ev,
                   guard_seq, hist>>

\* Line 247: the semaphore is acquired.
EnterSnapshot(t) ==
    /\ pc[t] = "wait_snap"
    /\ lock > 0
    /\ lock' = lock - 1
    /\ pc' = [pc EXCEPT ![t] = "snap"]
    /\ ret' = NoRet
    /\ UNCHANGED <<state_manager, saved_state, copied_state_manager,
                   last_state_change_id, snap_qty, db_state_changes, db_events,
                   db_snapshots, tx_state_changes, tx_events, ulid_sc, ulid_ev,
                   guard_seq, hist>>

\* Lines 248-253 and the release. Reading saved_state before it was ever
\* assigned raises AttributeError: nothing is written. Otherwise the state of
\* the authoritative manager is written with saved_state's id.
SnapshotBody(t) ==
    /\ pc[t] = "snap"
    /\ db_snapshots' =
         IF saved_state = Unset THEN db_snapshots
         ELSE WriteStateSnapshot(db_snapshots, state_manager,
                                 saved_state[1].state_change_id, snap_qty[t])
    /\ lock' = lock + 1
    /\ pc' = [pc EXCEPT ![t] = "idle"]
    /\ snap_qty' = [snap_qty EXCEPT ![t] = 0]
    /\ ret' = SnapshotRet(t, IF saved_state = Unset THEN "AttributeError" ELSE "ok")
    /\ UNCHANGED <<state_manager, saved_state, copied_state_manager,
                   last_state_change_id, db_state_changes, db_events,
                   tx_state_changes, tx_events, ulid_sc, ulid_ev, guard_seq,
                   hist>>

\* Line 253 raising (storage failure) or the task being killed inside
\* snapshot(): nothing is written, `with self._lock` releases the semaphore.
SnapshotFails(t) ==
    /\ pc[t] = "snap"
    /\ lock' = lock + 1
    /\ pc' = [pc EXCEPT ![t] = "idle"]
    /\ snap_qty' = [snap_qty EXCEPT ![t] = 0]
    /\ ret' = SnapshotRet(t, "failed")
    /\ UNCHANGED <<state_manager, saved_state, copied_state_manager,
                   last_state_change_id, db_state_changes, db_events,
                   db_snapshots, tx_state_changes, tx_events, ulid_sc, ulid_ev,
                   guard_seq, hist>>

\* ----------------------------------------------------------------- recovery
\* restore_or_init_snapshot writing the initial snapshot whether or not the
\* store has one.
RestoreOrInitSnapshotCall_AlwaysWrites(initial_state) ==
    /\ db_snapshots' = WriteStateSnapshot(db_snapshots, initial_state,
                                          LOW_STATECHANGE_ULID, 0)
    /\ ret' = <<[op |-> "restore_or_init", initial_state |-> initial_state,
                 state |-> initial_state,
                 state_change_id |-> LOW_STATECHANGE_ULID, qty |-> 0,
                 wrote |-> TRUE,
                 previous |-> IF ret # NoRet /\ ret[1].op = "restore_or_init"
                              THEN <<[state |-> ret[1].state,
                                      state_change_id |-> ret[1].state_change_id,
                                      qty |-> ret[1].qty]>>
                              ELSE <<>>]>>
    /\ UNCHANGED <<pc, lock, state_manager, saved_state, copied_state_manager,
                   last_state_change_id, snap_qty, db_state_changes,
                   db_events, tx_state_changes, tx_events, ulid_sc, ulid_ev,
                   guard_seq, hist>>

\* restore_or_init_snapshot(storage, node_address, initial_state), lines
\* 41-72: the latest snapshot if there is one, else initial_state is written
\* as the first snapshot. The outcome remembers the argument, whether the
\* first snapshot was written, and what the call before returned when that
\* was a restore_or_init_snapshot too.
RestoreOrInitSnapshotCall(initial_state) ==
    LET snapshot == GetSnapshotBeforeStateChange(db_snapshots, HIGH_STATECHANGE_ULID)
        previous == IF ret # NoRet /\ ret[1].op = "restore_or_init"
                    THEN <<[state |-> ret[1].state,
                            state_change_id |-> ret[1].state_change_id,
                            qty |-> ret[1].qty]>>
                    ELSE <<>>
    IN /\ IF snapshot # Unset
          THEN /\ ret' = <<[op |-> "restore_or_init",
                            initial_state |-> initial_state,
                            state |-> snapshot[1].data,
                            state_change_id |-> snapshot[1].state_change_identifier,
                            qty |-> snapshot[1].state_change_qty,
                            wrote |-> FALSE, previous |-> previous]>>
               /\ UNCHANGED db_snapshots
          ELSE /\ db_snapshots' = WriteStateSnapshot(db_snapshots, initial_state,
                                                     LOW_STATECHANGE_ULID, 0)
               /\ ret' = <<[op |-> "restore_or_init",
                            initial_state |-> initial_state,
                            state |-> initial_state,
                            state_change_id |-> LOW_STATECHANGE_ULID,
                            qty |-> 0,
                            wrote |-> TRUE, previous |-> previous]>>
       /\ UNCHANGED <<pc, lock, state_manager, saved_state, copied_state_manager,
                      last_state_change_id, snap_qty, db_state_changes,
                      db_events, tx_state_changes, tx_events, ulid_sc, ulid_ev,
                      guard_seq, hist>>

\* The node calls restore_or_init_snapshot when it starts, while no task is
\* inside the coordinator; on an empty database it passes the state its
\* StateManager is constructed with.
RestoreOrInitSnapshot(initial_state) ==
    /\ \A t \in Tasks : pc[t] = "idle"
    /\ db_snapshots = <<>> => initial_state = InitialState
    /\ RestoreOrInitSnapshotCall(initial_state)

\* replay_unapplied_state_changes, lines 75-99.
ReplayUnappliedStateChanges(first, last, state_snapshot) ==
    LET unapplied_state_changes == GetStatechangesByRange(db_state_changes, first, last)
    IN <<Len(unapplied_state_changes),
         StateManagerReplay(state_snapshot, unapplied_state_changes)>>

\* A caller applies replay_unapplied_state_changes to Range(first, last) and
\* a snapshot state; the function reads the store and builds a StateManager
\* of its own.
ReplayUnappliedStateChangesCall(first, last, state_snapshot) ==
    /\ ret' = <<[op |-> "replay", first |-> first, last |-> last,
                 state_snapshot |-> state_snapshot,
                 result |-> ReplayUnappliedStateChanges(first, last,
                                                        state_snapshot)]>>
    /\ UNCHANGED <<pc, lock, state_manager, saved_state, copied_state_manager,
                   last_state_change_id, snap_qty, db_state_changes,
                   db_events, db_snapshots, tx_state_changes, tx_events,
                   ulid_sc, ulid_ev, guard_seq, hist>>

\* restore_state, lines 102-135.
RestoreState(state_change_identifier) ==
    LET snapshot == GetSnapshotBeforeStateChange(db_snapshots, state_change_identifier)
    IN IF snapshot = Unset THEN Unset
       ELSE <<StateManagerReplay(
                snapshot[1].data,
                GetStatechangesByRange(db_state_changes,
                                       snapshot[1].state_change_identifier,
                                       state_change_identifier))>>

\* get_current_state, lines 255-257.
GetCurrentState == state_manager

\* ------------------------------------------------------------ specification
Next ==
    \/ \E t \in Tasks : CallScope(t)
    \/ \E t \in Tasks : EnterScope(t)
    \/ \E t \in Tasks, c \in StateChanges : Dispatch(t, c)
    \/ \E t \in Tasks, c \in StateChanges : DispatchTransitionFails(t, c)
    \/ \E t \in Tasks, c \in StateChanges, at \in {"state_change", "events"} :
          DispatchWriteFails(t, c, at)
    \/ \E t \in Tasks : BodyCatches(t)
    \/ \E t \in Tasks : ScopeAbort(t)
    \/ \E t \in Tasks : CommitFails(t)
    \/ \E t \in Tasks : ScopeCommit(t)
    \/ \E t \in Tasks : ScopePromote(t)
    \/ \E t \in Tasks, q \in QtyHints : CallSnapshot(t, q)
    \/ \E t \in Tasks : EnterSnapshot(t)
    \/ \E t \in Tasks : SnapshotBody(t)
    \/ \E t \in Tasks : SnapshotFails(t)
    \/ \E s \in InitialStates : RestoreOrInitSnapshot(s)

Spec == Init /\ [][Next]_vars

\* A task inside the coordinator leaves it: the scope body ends, the commit,
\* the promotion and the snapshot terminate.
Leave(t) ==
    \/ ScopeAbort(t)
    \/ CommitFails(t)
    \/ ScopeCommit(t)
    \/ ScopePromote(t)
    \/ SnapshotBody(t)
    \/ SnapshotFails(t)

\* A task blocked on the semaphore acquires it.
Acquire(t) == EnterScope(t) \/ EnterSnapshot(t)

\* Every scope body and every call terminates, and a task that finds the
\* semaphore free again and again acquires it.
FairSpec ==
    /\ Spec
    /\ \A t \in Tasks : WF_vars(Leave(t)) /\ SF_vars(Acquire(t))

\* ------------------------------------------------- recovery on a given store
\* The recovery functions take the storage as an argument and run when a node
\* starts, before its coordinator is used. The stores they are applied to:
\* the state change rows an earlier run has left, with increasing ids and
\* possibly gaps (an id drawn by a write that was rolled back), ...
StoredStateChanges ==
    UNION {{[i \in 1..Cardinality(ids) |->
               LET id == CHOOSE x \in ids :
                           Cardinality({y \in ids : y <= x}) = i
               IN [identifier |-> id, data |-> Serialize(f[id]), scope |-> 0]]
            : f \in [ids -> GoodChanges]}
           : ids \in SUBSET (1..MaxUlid)}

\* ... and the snapshots of that run: none (only while no state change was
\* committed), the initial one, or the initial one and one taken after the
\* k-th state change.
StoredSnapshots(rows) ==
    LET first(s) == [data |-> s, state_change_identifier |-> LOW_STATECHANGE_ULID,
                     state_change_qty |-> 0]
    IN {t \in {<<>>} : rows = <<>>}
       \cup {<<first(s)>> : s \in InitialStates}
       \cup {<<first(s),
               [data |-> StateManagerReplay(
                           s, [i \in 1..k |-> Deserialize(rows[i].data)]),
                state_change_identifier |-> rows[k].identifier,
                state_change_qty |-> q]>>
             : s \in InitialStates, k \in 1..Len(rows), q \in QtyHints}

\* The snapshot states replay_unapplied_state_changes is given.
SnapshotStates == InitialStates \cup {<<7, 1>>}

\* A node starting on such a store: no task is running yet, the coordinator
\* is as constructed.
RecoveryInit ==
    /\ pc = [t \in Tasks |-> "idle"]
    /\ lock = 1
    /\ state_manager = InitialState
    /\ saved_state = Unset
    /\ copied_state_manager = [t \in Tasks |-> <<>>]
    /\ last_state_change_id = [t \in Tasks |-> NoneId]
    /\ snap_qty = [t \in Tasks |-> 0]
    /\ db_state_changes \in StoredStateChanges
    /\ db_events = <<>>
    /\ db_snapshots \in StoredSnapshots(db_state_changes)
    /\ tx_state_changes = <<>>
    /\ tx_events = <<>>
    /\ ulid_sc = IF db_state_changes = <<>> THEN LOW_STATECHANGE_ULID
                 ELSE db_state_changes[Len(db_state_changes)].identifier
    /\ ulid_ev = 0
    /\ guard_seq = 0
    /\ ret = NoRet
    /\ hist = [t \in Tasks |-> NoHist]

RecoveryNext ==
    \/ \E s \in InitialStates : RestoreOrInitSnapshotCall(s)
    \/ \E first, last \in LOW_STATECHANGE_ULID..HIGH_STATECHANGE_ULID,
          s \in SnapshotStates :
          ReplayUnappliedStateChangesCall(first, last, s)

RecoverySpec == RecoveryInit /\ [][RecoveryNext]_vars

\* ------------------------------------------- callers breaking the protocol
\* The body of a commit scope opens another commit scope on the same
\* coordinator: the task reaches `with self._lock` (line 220) while its own
\* scope, whose locals it keeps, holds the semaphore.
ReenterScope(t) ==
    /\ pc[t] = "body"
    /\ pc' = [pc EXCEPT ![t] = "wait_scope"]
    /\ ret' = NoRet
    /\ UNCHANGED <<lock, state_manager, saved_state, copied_state_manager,
                   last_state_change_id, snap_qty, db_state_changes, db_events,
                   db_snapshots, tx_state_changes, tx_events, ulid_sc, ulid_ev,
                   guard_seq, hist>>

\* The body of a commit scope calls snapshot() on the same coordinator: the
\* task reaches `with self._lock` (line 247) while its own scope holds the
\* semaphore.
ReenterSnapshot(t, statechange_qty) ==
    /\ pc[t] = "body"
    /\ pc' = [pc EXCEPT ![t] = "wait_snap"]
    /\ snap_qty' = [snap_qty EXCEPT ![t] = statechange_qty]
    /\ ret' = NoRet
    /\ UNCHANGED <<lock, state_manager, saved_state, copied_state_manager,
                   last_state_change_id, db_state_changes, db_events,
                   db_snapshots, tx_state_changes, tx_events, ulid_sc, ulid_ev,
                   guard_seq, hist>>

\* The task whose commit scope has just ended calls dispatch (lines 186-192)
\* on the dispatcher the scope yielded. The dispatcher still holds the
\* manager it was built with (line 225): after line 229 that object is the
\* coordinator's manager, after a rollback it is the discarded copy. No
\* transaction is open: the storage either takes the rows as they come or
\* rejects the write.
StaleDispatch(t, state_change, outcome) ==
    /\ ret # NoRet
    /\ ret[1].op = "scope"
    /\ ret[1].task = t
    /\ pc[t] = "idle"
    /\ ulid_sc < MaxUlid
    /\ IF TransitionFails(ret[1].copy, state_change)
       THEN UNCHANGED <<state_manager, db_state_changes, db_events,
                        ulid_sc, ulid_ev>>
       ELSE LET it == StateManagerDispatch(ret[1].copy, state_change)
                w  == WriteStateChangeAndEvents(ret[1].scope.no, state_change,
                                                it.events, Len(it.events))
            IN /\ state_manager' = IF ret[1].result = "ok" THEN it.new_state
                                   ELSE state_manager
               /\ ulid_sc' = w.ulid_sc
               /\ IF outcome = "written"
                  THEN /\ db_state_changes' =
                            TxCommit(db_state_changes, w.state_changes)
                       /\ db_events' = TxCommit(db_events, w.events)
                       /\ ulid_ev' = w.ulid_ev
                  ELSE UNCHANGED <<db_state_changes, db_events, ulid_ev>>
    /\ ret' = NoRet
    /\ UNCHANGED <<pc, lock, saved_state, copied_state_manager,
                   last_state_change_id, snap_qty, db_snapshots,
                   tx_state_changes, tx_events, guard_seq, hist>>

MisuseNext ==
    \/ Next
    \/ \E t \in Tasks : ReenterScope(t)
    \/ \E t \in Tasks, q \in QtyHints : ReenterSnapshot(t, q)
    \/ \E t \in Tasks, c \in StateChanges, o \in {"written", "rejected"} :
          StaleDispatch(t, c, o)

\* The coordinator used by callers that may break the protocol.
MisuseSpec == Init /\ [][MisuseNext]_vars

\* ------------------------------------------------------- claims: vocabulary
\* The state changes durably committed with an id <= the given one, in
\* ascending id order.
CommittedUpTo(state_change_id) ==
    LET sel == SortByIdentifier(db_state_changes)
        idx == {i \in 1..Len(sel) : sel[i].identifier <= state_change_id}
    IN [i \in 1..Cardinality(idx) |-> sel[i].data.json]

\* The fold of a sequence of state changes onto a state.
RECURSIVE Fold(_, _)
Fold(state, state_changes) ==
    IF state_changes = <<>> THEN state
    ELSE Fold(TransitionFunction(state, Head(state_changes)).new_state,
              Tail(state_changes))

\* A commit scope has just ended.
ScopeEnded == ret # NoRet /\ ret[1].op = "scope"
ScopeFailed == ScopeEnded /\ ret[1].result # "ok"
ScopeSucceeded == ScopeEnded /\ ret[1].result = "ok"

\* The guard is free: no task holds the semaphore.
GuardFree == lock = 1

\* The rows a scope's returned dispatch calls account for.
CallRows(h) ==
    [i \in 1..Len(h.calls) |->
       [identifier |-> h.calls[i].state_change_id,
        data |-> [json |-> h.calls[i].state_change],
        scope |-> h.no]]

RECURSIVE CallEvents(_)
CallEvents(calls) ==
    IF calls = <<>> THEN <<>>
    ELSE [i \in 1..Len(Head(calls).events) |->
            [source_statechange_id |-> Head(calls).state_change_id,
             data |-> [json |-> Head(calls).events[i]]]]
         \o CallEvents(Tail(calls))

\* The event rows without the EventIDs.
Untagged(events) ==
    [i \in 1..Len(events) |->
       [source_statechange_id |-> events[i].source_statechange_id,
        data |-> events[i].data]]

\* ----------------------------------------------------------------------- C1
\* C1: when a commit scope has ended with a failure (raised by the body, by
\* the transition function, by a storage write or by the commit), the store
\* holds exactly the rows it held before the scope was opened, nothing is
\* left pending, and the authoritative engine state and saved_state equal
\* their pre-scope values.
C1_AtomicityOnFailure ==
    ScopeFailed =>
       /\ db_state_changes = ret[1].scope.pre_state_changes
       /\ db_events = ret[1].scope.pre_events
       /\ tx_state_changes = <<>>
       /\ tx_events = <<>>
       /\ \A i \in 1..Len(ret[1].scope.calls) :
             \A j \in 1..Len(db_state_changes) :
                db_state_changes[j].identifier # ret[1].scope.calls[i].state_change_id
       /\ state_manager = ret[1].scope.pre_state
       /\ saved_state = ret[1].scope.pre_saved

\* Scenario D: a scope dispatched one state change and failed on the
\* transition function of the next.
C1_Witness ==
    /\ ScopeFailed
    /\ ret[1].result = "transition"
    /\ Len(ret[1].scope.calls) >= 1
    /\ ret[1].scope.pre_saved # Unset

C3_SavedStatePairing ==
    saved_state # Unset =>
       saved_state[1].state =
          Fold(InitialState, CommittedUpTo(saved_state[1].state_change_id))

\* ----------------------------------------------------------------------- C4
\* C4: whenever the guard is free, the authoritative engine state is the
\* fold, in id order onto the initial state, of exactly the state changes
\* committed in the store.
C4_MemoryEqualsStorage ==
    GuardFree =>
       state_manager = Fold(InitialState, CommittedUpTo(HIGH_STATECHANGE_ULID))

\* ----------------------------------------------------------------------- C5
\* C5: the state change rows, committed and pending, are in the order in
\* which their scopes acquired the guard: the scope numbers never decrease
\* along the table, so the rows of two scopes are never interleaved.
C5_CommitOrderIsGuardOrder ==
    LET rows == db_state_changes \o tx_state_changes
    IN \A i, j \in 1..Len(rows) : i < j => rows[i].scope <= rows[j].scope

\* Two scopes have committed one after the other and a task is waiting for
\* the guard.
C5_Witness ==
    /\ Len(db_state_changes) >= 2
    /\ db_state_changes[1].scope < db_state_changes[Len(db_state_changes)].scope
    /\ \E t \in Tasks : Waiting(t)

\* ----------------------------------------------------------------------- C6
\* The store was initialised by restore_or_init_snapshot(InitialState).
StoreInitialised ==
    /\ db_snapshots # <<>>
    /\ db_snapshots[1] = [data |-> InitialState,
                          state_change_identifier |-> LOW_STATECHANGE_ULID,
                          state_change_qty |-> 0]

\* C6: on a store initialised by restore_or_init_snapshot(InitialState),
\* restore_state(id) returns, for every id from LOW to HIGH, the fold onto
\* the initial state of exactly the committed state changes with an id <= id,
\* and, when the guard is free, restore_state(HIGH) is the live authoritative
\* state.
C6_PointInTimeRecovery ==
    StoreInitialised =>
       /\ \A id \in LOW_STATECHANGE_ULID..HIGH_STATECHANGE_ULID :
             RestoreState(id) = <<Fold(InitialState, CommittedUpTo(id))>>
       /\ GuardFree => RestoreState(HIGH_STATECHANGE_ULID) = <<state_manager>>

\* ----------------------------------------------------------------------- C7
Inside(t) == InScope(t) \/ InSnapshot(t)

\* C7: the guard is free whenever no task is inside a commit scope or a
\* snapshot, whatever way the last one left, and every task that waits for
\* the guard eventually acquires it.
C7_GuardNeverLeaked ==
    /\ []((\A t \in Tasks : ~Inside(t)) => GuardFree)
    /\ \A t \in Tasks : Waiting(t) ~> Inside(t)

\* A scope has just failed on a storage write while another task was waiting
\* for the guard, which is free again.
C7_Witness ==
    /\ ScopeFailed
    /\ ret[1].result = "write"
    /\ GuardFree
    /\ \E t \in Tasks : Waiting(t)

\* ----------------------------------------------------------------------- C8
\* C8: at most one task is inside a commit scope or inside snapshot(), and
\* the semaphore is taken exactly while one is.
C8_MutualExclusion ==
    /\ Cardinality({t \in Tasks : Inside(t)}) <= 1
    /\ lock = 1 - Cardinality({t \in Tasks : Inside(t)})

\* A scope has committed and not yet promoted while another task waits to
\* take a snapshot.
C8_Witness ==
    \E t, u \in Tasks :
       /\ pc[t] = "committed"
       /\ Len(hist[t].calls) >= 1
       /\ pc[u] = "wait_snap"

\* ----------------------------------------------------------------------- C9
\* C9: while a commit scope is open and its transaction is not committed,
\* get_current_state() and saved_state are the values from before the scope.
C9_ReadersSeeCommittedState ==
    \A t \in Tasks :
       pc[t] \in {"body", "raised"} =>
          /\ GetCurrentState = hist[t].pre_state
          /\ saved_state = hist[t].pre_saved

\* A scope has dispatched a state change that is not committed yet, on top
\* of an earlier commit.
C9_Witness ==
    \E t \in Tasks :
       /\ pc[t] = "body"
       /\ Len(hist[t].calls) >= 1
       /\ copied_state_manager[t] # GetCurrentState
       /\ saved_state # Unset

\* ---------------------------------------------------------------------- C10
\* C10: the state change ids are strictly increasing along the table of
\* committed and pending rows, and a scope that replaces saved_state gives
\* it an id strictly greater than the one it replaces.
C10_IdentifierMonotonicity ==
    /\ LET rows == db_state_changes \o tx_state_changes
       IN \A i, j \in 1..Len(rows) :
             i < j => rows[i].identifier < rows[j].identifier
    /\ (ScopeSucceeded /\ ret[1].scope.pre_saved # Unset) =>
          \/ saved_state = ret[1].scope.pre_saved
          \/ saved_state[1].state_change_id
               > ret[1].scope.pre_saved[1].state_change_id

\* A second scope has replaced saved_state and the table holds the rows of
\* two scopes.
C10_Witness ==
    /\ ScopeSucceeded
    /\ ret[1].scope.pre_saved # Unset
    /\ saved_state # ret[1].scope.pre_saved
    /\ Len(db_state_changes) >= 2

\* ---------------------------------------------------------------------- C11
\* snapshot() has just written a row.
SnapshotWritten == ret # NoRet /\ ret[1].op = "snapshot" /\ ret[1].result = "ok"

\* C11: the row snapshot(count_hint) has just written holds saved_state.state
\* tagged with saved_state.state_change_id and count_hint, and the state of
\* every snapshot written by snapshot() is the fold, onto the initial state,
\* of the committed state changes with an id <= the snapshot's id.
C11_SnapshotConsistent ==
    /\ SnapshotWritten =>
          db_snapshots[Len(db_snapshots)] =
             [data |-> saved_state[1].state,
              state_change_identifier |-> saved_state[1].state_change_id,
              state_change_qty |-> ret[1].qty]
    /\ \A i \in 1..Len(db_snapshots) :
          db_snapshots[i].state_change_identifier # LOW_STATECHANGE_ULID =>
             db_snapshots[i].data =
                Fold(InitialState,
                     CommittedUpTo(db_snapshots[i].state_change_identifier))

\* ---------------------------------------------------------------------- C12
\* C12: a snapshot() call that ends, without a storage failure, on a
\* coordinator on which no state change has ever been committed returns
\* normally, writes no snapshot, leaves the engine and saved_state as they
\* were and gives the guard back.
C12_SnapshotBeforeFirstCommitIsNoOp ==
    [][\A t \in Tasks :
          (/\ pc[t] = "snap"
           /\ pc'[t] = "idle"
           /\ db_state_changes = <<>>
           /\ ret'[1].result # "failed")
          => /\ ret'[1].result = "ok"
             /\ db_snapshots' = db_snapshots
             /\ state_manager' = state_manager
             /\ saved_state' = saved_state
             /\ lock' = lock + 1]_vars

\* ---------------------------------------------------------------------- C13
\* The (state, state_change_id, count) a restore_or_init_snapshot call
\* returned.
Returned(r) == <<r.state, r.state_change_id, r.qty>>

\* C13: a restore_or_init_snapshot(initial_state) call on a store without a
\* snapshot leaves exactly one snapshot, (initial_state, LOW, 0), and returns
\* (initial_state, LOW, 0); on a store with a snapshot it returns the state,
\* id and count of the latest one and leaves the snapshots as they were. It
\* never touches the state changes and the events.
C13_RestoreOrInit ==
    [][(ret' # NoRet /\ ret'[1].op = "restore_or_init") =>
          /\ IF db_snapshots = <<>>
             THEN /\ db_snapshots' =
                       <<[data |-> ret'[1].initial_state,
                          state_change_identifier |-> LOW_STATECHANGE_ULID,
                          state_change_qty |-> 0]>>
                  /\ Returned(ret'[1]) =
                       <<ret'[1].initial_state, LOW_STATECHANGE_ULID, 0>>
             ELSE /\ db_snapshots' = db_snapshots
                  /\ LET latest == db_snapshots[Len(db_snapshots)]
                     IN Returned(ret'[1]) =
                           <<latest.data, latest.state_change_identifier,
                             latest.state_change_qty>>
          /\ db_state_changes' = db_state_changes
          /\ db_events' = db_events]_vars

\* A call on a store holding the initial snapshot and a later one has
\* returned the later one and not the initial state it was given.
C13_Witness ==
    /\ ret # NoRet
    /\ ret[1].op = "restore_or_init"
    /\ ~ret[1].wrote
    /\ Len(db_snapshots) = 2
    /\ ret[1].state_change_id # LOW_STATECHANGE_ULID
    /\ ret[1].state # ret[1].initial_state

\* ---------------------------------------------------------------------- C14
\* C14: a restore_or_init_snapshot call that directly follows another one
\* returns what that one returned and writes nothing, whatever initial_state
\* it is given: the store still holds a single initial snapshot.
C14_RecoveryIdempotence ==
    (ret # NoRet /\ ret[1].op = "restore_or_init" /\ ret[1].previous # <<>>) =>
       /\ Returned(ret[1]) = Returned(ret[1].previous[1])
       /\ ~ret[1].wrote
       /\ Cardinality({i \in 1..Len(db_snapshots) :
                         db_snapshots[i].state_change_identifier
                            = LOW_STATECHANGE_ULID}) = 1

\* The second call was given another initial state than the one the first
\* call has persisted.
C14_Witness ==
    /\ ret # NoRet
    /\ ret[1].op = "restore_or_init"
    /\ ret[1].previous # <<>>
    /\ ret[1].initial_state # ret[1].state
    /\ Len(db_snapshots) = 1

\* ---------------------------------------------------------------------- C18
\* The ids of the state change rows the store holds in Range(first, last).
IdsInRange(first, last) ==
    {db_state_changes[i].identifier : i \in
        {j \in 1..Len(db_state_changes) :
            /\ db_state_changes[j].identifier > first
            /\ db_state_changes[j].identifier <= last}}

\* The fold onto `state` of the stored state changes with the given ids,
\* lowest id first.
RECURSIVE FoldAscending(_, _)
FoldAscending(state, ids) ==
    IF ids = {} THEN state
    ELSE LET lowest == CHOOSE x \in ids : \A y \in ids : x <= y
             row == db_state_changes[CHOOSE i \in 1..Len(db_state_changes) :
                                       db_state_changes[i].identifier = lowest]
         IN FoldAscending(TransitionFunction(state, row.data.json).new_state,
                          ids \ {lowest})

ReplayReturned == ret # NoRet /\ ret[1].op = "replay"

\* C18: replay_unapplied_state_changes returns (k, S) where k is the number
\* of state changes the store holds in the range and S is the fold of those
\* state changes, in ascending id order, onto the snapshot state; for an
\* empty range that is (0, snapshot state); the call leaves the store as it
\* was.
C18_Replay ==
    /\ [](ReplayReturned =>
            LET ids == IdsInRange(ret[1].first, ret[1].last)
            IN /\ ret[1].result[1] = Cardinality(ids)
               /\ ret[1].result[2] = FoldAscending(ret[1].state_snapshot, ids)
               /\ ids = {} => ret[1].result = <<0, ret[1].state_snapshot>>)
    /\ [][(ret' # NoRet /\ ret'[1].op = "replay") =>
             /\ db_state_changes' = db_state_changes
             /\ db_events' = db_events
             /\ db_snapshots' = db_snapshots
             /\ tx_state_changes' = tx_state_changes
             /\ tx_events' = tx_events]_vars

\* A replay of the second of two stored state changes, which yields an
\* event, onto a snapshot taken after the first.
C18_Witness ==
    /\ ReplayReturned
    /\ Len(db_state_changes) = 2
    /\ ret[1].first = db_state_changes[1].identifier
    /\ ret[1].result[1] = 1
    /\ ret[1].state_snapshot = <<7, 1>>
    /\ ret[1].result[2] = <<7, 1, 2>>

\* ---------------------------------------------------------------------- C15
\* C15: when a commit scope in which no dispatch call got past the
\* transition function (dispatch was never called, or only raised there) has
\* completed normally, saved_state is the pre-scope one, the store holds the
\* state change, event and snapshot rows it held before and nothing is
\* pending, and the authoritative engine state equals the pre-scope state.
C15_EmptyScopeChangesNothing ==
    /\ [](/\ ScopeSucceeded
          /\ ret[1].scope.calls = <<>>
          /\ ~ret[1].scope.swallowed
          => /\ saved_state = ret[1].scope.pre_saved
             /\ state_manager = ret[1].scope.pre_state
             /\ db_state_changes = ret[1].scope.pre_state_changes
             /\ db_events = ret[1].scope.pre_events
             /\ tx_state_changes = <<>>
             /\ tx_events = <<>>)
    /\ [][\A t \in Tasks :
             (InScope(t) /\ hist[t].calls = <<>>) =>
                db_snapshots' = db_snapshots]_vars

\* A scope without a dispatch has completed after an earlier scope had set
\* saved_state.
C15_Witness ==
    /\ ScopeSucceeded
    /\ ret[1].scope.calls = <<>>
    /\ ~ret[1].scope.swallowed
    /\ ret[1].scope.pre_saved # Unset
    /\ ret[1].scope.pre_state # InitialState

\* ---------------------------------------------------------------------- C17
\* The payloads of the event rows tagged with a state change id, in table
\* order.
EventsOf(events, state_change_id) ==
    LET Tagged(e) == e.source_statechange_id = state_change_id
        sel == SelectSeq(events, Tagged)
    IN [i \in 1..Len(sel) |-> sel[i].data]

\* C17: every event row, committed or pending, is tagged with the id of a
\* state change row of the same table (committed with committed, pending
\* with pending), and the events committed for a state change are exactly
\* the events the transition function returned for it.
C17_EventsFollowTheirStateChange ==
    /\ \A i \in 1..Len(db_events) :
          \E j \in 1..Len(db_state_changes) :
             db_state_changes[j].identifier = db_events[i].source_statechange_id
    /\ \A i \in 1..Len(tx_events) :
          \E j \in 1..Len(tx_state_changes) :
             tx_state_changes[j].identifier = tx_events[i].source_statechange_id
    /\ \A j \in 1..Len(db_state_changes) :
          LET row == db_state_changes[j]
              before == Fold(InitialState, CommittedUpTo(row.identifier - 1))
              produced == TransitionFunction(before, row.data.json).events
          IN EventsOf(db_events, row.identifier) =
                [i \in 1..Len(produced) |-> [json |-> produced[i]]]

\* ---------------------------------------------------------------------- C19
\* C19: whenever the guard is free and a state change has been committed,
\* saved_state is set and the authoritative engine state, which
\* get_current_state returns and snapshot() persists, equals
\* saved_state.state.
C19_EngineEqualsSavedState ==
    (GuardFree /\ db_state_changes # <<>>) =>
       /\ saved_state # Unset
       /\ GetCurrentState = saved_state[1].state

\* ---------------------------------------------------------------------- C16
\* A dispatch call on the dispatcher of the scope that has just ended: the
\* only step that follows the end of a scope without moving a task or
\* returning from a call.
StaleDispatchStep == ScopeEnded /\ pc' = pc /\ ret' = NoRet

\* C16: the rows of a dispatch are pending only while a scope holds the
\* guard, and a dispatch call on the dispatcher of a scope that has ended,
\* committed or rolled back, changes neither the authoritative engine state
\* nor saved_state nor the store.
C16_DispatcherValidOnlyInScope ==
    /\ []((tx_state_changes # <<>> \/ tx_events # <<>>) => ~GuardFree)
    /\ [][StaleDispatchStep =>
             /\ state_manager' = state_manager
             /\ saved_state' = saved_state
             /\ db_state_changes' = db_state_changes
             /\ db_events' = db_events
             /\ db_snapshots' = db_snapshots]_vars

\* ---------------------------------------------------------------------- C20
\* The task waits for the guard while its own commit scope holds it.
Nested(t) == Waiting(t) /\ hist[t].no # 0

\* C20: a task that, inside its own open commit scope, opens another commit
\* scope or calls snapshot() never gets past the guard: from then on it stays
\* blocked, the guard stays taken, its scope is neither committed nor
\* promoted, and every other task that waits for the guard stays blocked.
C20_GuardNotReentrant ==
    [][(\E t \in Tasks : Nested(t)) =>
          /\ \A u \in Tasks : Waiting(u) => pc'[u] = pc[u]
          /\ \A u \in Tasks : Nested(u) => hist'[u] = hist[u]
          /\ lock' = lock
          /\ lock = 0
          /\ db_state_changes' = db_state_changes
          /\ db_events' = db_events
          /\ state_manager' = state_manager
          /\ saved_state' = saved_state]_vars

\* A task is blocked inside its own scope, which has dispatched, and the
\* other task has come to wait for the guard.
C20_Witness ==
    \E t, u \in Tasks :
       /\ Nested(t)
       /\ Len(hist[t].calls) >= 1
       /\ u # t
       /\ Waiting(u)
       /\ ~Nested(u)

====
